---- MODULE Spec2Model ----
(***************************************************************************)
(* netbox-csv-backup (src/backup.py): export of NetBox objects to CSV.     *)
(*                                                                         *)
(* Python values are tagged records [t, v]:                                *)
(*   none    None                                                          *)
(*   str     a string (v is the text)                                      *)
(*   int     an integer                                                    *)
(*   dict    a plain mapping; v is the ordered sequence of its items       *)
(*   record  a pynetbox Record ('Record' is in its type name)              *)
(*   obj     an object handle of another class (e.g. a pynetbox model      *)
(*           class such as Devices); v is its ordered attributes           *)
(*   list    a list; v is the sequence of its elements                     *)
(*   raise   the evaluation raised an exception                            *)
(***************************************************************************)
EXTENDS Integers, Sequences, FiniteSets, TLC

VARIABLES
    \* ---- a run of backup_all -------------------------------------------
    pc,            \* position of the run
    conf_dir,      \* what conf_dir.glob returns: sequence of configuration files
    object_types,  \* the object_types argument of backup_all
    env,           \* environment: connection settings, conf/ directory
    config_files,  \* the local list backup_all sorts, filters and iterates
    idx,           \* position of the for loop over config_files (1-based)
    cur,           \* locals of the backup_from_config call in progress
    output,        \* the output/ directory: file name -> content
    log,           \* what happened so far (prints, fetches, starts, ends)
    interrupted,   \* a KeyboardInterrupt has been delivered during the run
    \* ---- one evaluation of extract_field_value / of a row cell ---------
    x_pc, x_obj, x_field, x_value, x_cell,
    \* ---- one call of get_netbox_endpoint -------------------------------
    r_pc,          \* position of the call
    r_nb,          \* the client
    r_type,        \* the object type name
    r_endpoint,    \* what the call returned
    r_fetches      \* bulk fetches issued so far

runVars == <<pc, conf_dir, object_types, env, config_files, idx, cur, output, log,
             interrupted>>
cellVars == <<x_pc, x_obj, x_field, x_value, x_cell>>
resolveVars == <<r_pc, r_nb, r_type, r_endpoint, r_fetches>>
vars == <<pc, conf_dir, object_types, env, config_files, idx, cur, output, log,
          interrupted,
          x_pc, x_obj, x_field, x_value, x_cell,
          r_pc, r_nb, r_type, r_endpoint, r_fetches>>

-----------------------------------------------------------------------------
(* Python values                                                           *)

None == [t |-> "none", v |-> ""]
Raised == [t |-> "raise", v |-> ""]
PStr(s) == [t |-> "str", v |-> s]
PInt(n) == [t |-> "int", v |-> n]
PDict(items) == [t |-> "dict", v |-> items]
PRecord(items) == [t |-> "record", v |-> items]
PObj(items) == [t |-> "obj", v |-> items]
PList(elems) == [t |-> "list", v |-> elems]
Item(key, x) == [k |-> key, v |-> x]

IsMapping(x) == x.t \in {"dict", "record", "obj"}
HasKey(x, key) == IsMapping(x) /\ \E i \in 1..Len(x.v) : x.v[i].k = key
Lookup(x, key) == x.v[CHOOSE i \in 1..Len(x.v) : x.v[i].k = key].v

\* isinstance(x, dict)
isdict(x) == x.t = "dict"
\* isinstance(x, list)
islist(x) == x.t = "list"
\* 'Record' in str(type(x))
IsRecordType(x) == x.t = "record"
\* hasattr(x, key): attributes of object handles; a dict, a string, a number,
\* a list and None have none of the attributes the program asks for
hasattr(x, key) == x.t \in {"record", "obj"} /\ HasKey(x, key)
\* getattr(x, key, default)
getattr(x, key, default) == IF hasattr(x, key) THEN Lookup(x, key) ELSE default
\* key in d
InDict(d, key) == isdict(d) /\ HasKey(d, key)
\* d.get(key, default)
DictGet(d, key, default) == IF InDict(d, key) THEN Lookup(d, key) ELSE default

\* bool(x)
Truthy(x) ==
    CASE x.t = "none" -> FALSE
      [] x.t = "str" -> x.v # ""
      [] x.t = "int" -> x.v # 0
      [] x.t = "dict" -> Len(x.v) > 0
      [] x.t = "list" -> Len(x.v) > 0
      [] OTHER -> TRUE

Digits == <<"0", "1", "2", "3", "4", "5", "6", "7", "8", "9">>

RECURSIVE IntStr(_)
IntStr(n) ==
    IF n < 0 THEN "-" \o IntStr(0 - n)
    ELSE IF n < 10 THEN Digits[n + 1]
    ELSE IntStr(n \div 10) \o Digits[(n % 10) + 1]

\* repr of one character of a string
ReprChar(c) ==
    CASE c = "\n" -> "\\n"
      [] c = "\r" -> "\\r"
      [] c = "\t" -> "\\t"
      [] c = "\\" -> "\\\\"
      [] OTHER -> c

RECURSIVE ReprChars(_)
ReprChars(s) == IF s = "" THEN "" ELSE ReprChar(Head(s)) \o ReprChars(Tail(s))

RECURSIVE Str(_), Repr(_), ReprItems(_), ReprElems(_)
\* str(x)
Str(x) ==
    CASE x.t = "none" -> "None"
      [] x.t = "str" -> x.v
      [] x.t = "int" -> IntStr(x.v)
      [] x.t = "dict" -> "{" \o ReprItems(x.v) \o "}"
      [] x.t = "list" -> "[" \o ReprElems(x.v) \o "]"
      \* pynetbox Record.__str__: name or label or display or ""
      [] x.t = "record" ->
            IF HasKey(x, "name") /\ Truthy(Lookup(x, "name")) THEN Str(Lookup(x, "name"))
            ELSE IF HasKey(x, "label") /\ Truthy(Lookup(x, "label")) THEN Str(Lookup(x, "label"))
            ELSE IF HasKey(x, "display") /\ Truthy(Lookup(x, "display")) THEN Str(Lookup(x, "display"))
            ELSE ""
      [] x.t = "obj" -> "<object>"
      [] OTHER -> ""
\* repr(x)
Repr(x) == IF x.t = "str" THEN "'" \o ReprChars(x.v) \o "'" ELSE Str(x)
ReprItems(items) ==
    IF items = <<>> THEN ""
    ELSE "'" \o Head(items).k \o "': " \o Repr(Head(items).v)
         \o (IF Len(items) > 1 THEN ", " ELSE "") \o ReprItems(Tail(items))
ReprElems(elems) ==
    IF elems = <<>> THEN ""
    ELSE Repr(Head(elems)) \o (IF Len(elems) > 1 THEN ", " ELSE "") \o ReprElems(Tail(elems))

\* list(d.values())[0]
FirstValue(d) == d.v[1].v

-----------------------------------------------------------------------------
(* String normalisation of a row cell (backup_from_config, lines 513-517)   *)

RECURSIVE ReplaceCRLF(_)
\* s.replace('\r\n', ' ')
ReplaceCRLF(s) ==
    IF Len(s) < 2 THEN s
    ELSE IF SubSeq(s, 1, 2) = "\r\n" THEN " " \o ReplaceCRLF(SubSeq(s, 3, Len(s)))
    ELSE Head(s) \o ReplaceCRLF(Tail(s))

RECURSIVE ReplaceChar(_, _)
\* s.replace(c, ' ') for a one-character c
ReplaceChar(s, c) ==
    IF s = "" THEN ""
    ELSE (IF Head(s) = c THEN " " ELSE Head(s)) \o ReplaceChar(Tail(s), c)

\* the characters str.split() splits on
Whitespace == {" ", "\t", "\n", "\r", "\f"}

RECURSIVE SplitFrom(_, _)
\* s.split() continued: word is the word being read
SplitFrom(s, word) ==
    IF s = "" THEN (IF word = "" THEN <<>> ELSE <<word>>)
    ELSE IF Head(s) \in Whitespace
         THEN (IF word = "" THEN <<>> ELSE <<word>>) \o SplitFrom(Tail(s), "")
         ELSE SplitFrom(Tail(s), word \o Head(s))

\* s.split()
Split(s) == SplitFrom(s, "")

RECURSIVE Join(_, _)
\* sep.join(words)
Join(sep, words) ==
    IF words = <<>> THEN ""
    ELSE IF Len(words) = 1 THEN words[1]
    ELSE words[1] \o sep \o Join(sep, Tail(words))

-----------------------------------------------------------------------------
(* extract_field_value (lines 144-422)                                     *)

\* no rule of the chain applied: control goes on to the next rule
Fallthrough == [t |-> "fallthrough", v |-> ""]

\* x.name if hasattr(x, 'name') else str(x)
NameOrStr(x) == IF hasattr(x, "name") THEN Lookup(x, "name") ELSE PStr(Str(x))

\* dict(obj) at line 162: the items of a Record; any other object is not iterable
DictOfObject(obj) == IF obj.t = "record" THEN PDict(obj.v) ELSE Raised

\* lines 157-166
AssignedObject(obj) ==
    IF hasattr(obj, "assigned_object") THEN getattr(obj, "assigned_object", None)
    ELSE IF obj.t \in {"record", "obj"}
         THEN LET obj_dict == DictOfObject(obj)
              IN  IF obj_dict # Raised /\ InDict(obj_dict, "assigned_object")
                  THEN Lookup(obj_dict, "assigned_object")
                  ELSE None
         ELSE None

\* lines 169-201: the body of the assigned-object rule
AssignedObjectField(assigned_obj, field) ==
    IF isdict(assigned_obj)
    THEN CASE field = "device" ->
                LET device == DictGet(assigned_obj, "device", None)
                IN  IF Truthy(device) /\ isdict(device) THEN DictGet(device, "name", PStr(""))
                    ELSE IF Truthy(device) /\ hasattr(device, "name") THEN Lookup(device, "name")
                    ELSE PStr("")
           [] field = "virtual_machine" ->
                IF InDict(assigned_obj, "virtual_machine")
                THEN LET vm == Lookup(assigned_obj, "virtual_machine")
                     IN  IF isdict(vm) THEN DictGet(vm, "name", PStr(""))
                         ELSE IF hasattr(vm, "name") THEN Lookup(vm, "name")
                         ELSE PStr("")
                ELSE PStr("")
           [] OTHER ->
                IF InDict(assigned_obj, "name")
                THEN PStr(Str(Lookup(assigned_obj, "name")))
                ELSE PStr("")
    ELSE CASE field = "device" ->
                IF hasattr(assigned_obj, "device") /\ Truthy(Lookup(assigned_obj, "device"))
                THEN NameOrStr(Lookup(assigned_obj, "device"))
                ELSE PStr("")
           [] field = "virtual_machine" ->
                IF hasattr(assigned_obj, "virtual_machine")
                   /\ Truthy(Lookup(assigned_obj, "virtual_machine"))
                THEN NameOrStr(Lookup(assigned_obj, "virtual_machine"))
                ELSE PStr("")
           [] OTHER ->
                IF hasattr(assigned_obj, "name")
                THEN PStr(Str(Lookup(assigned_obj, "name")))
                ELSE PStr("")

assigned_object_fields == {"device", "virtual_machine", "interface"}
wireless_fields == {"device_a", "interface_a", "site_a", "device_b", "interface_b", "site_b"}
cable_fields == {"side_a_device", "side_a_type", "side_a_name", "side_a_site",
                 "side_b_device", "side_b_type", "side_b_name", "side_b_site"}

\* the device of an interface or termination, when present and truthy
DeviceOf(x) ==
    IF hasattr(x, "device") /\ Truthy(Lookup(x, "device")) THEN Lookup(x, "device") ELSE None

\* the site name behind a device (lines 219-221, 236-238, 270-272, 300-302)
SiteNameOf(device) ==
    IF hasattr(device, "site") /\ Truthy(Lookup(device, "site"))
    THEN NameOrStr(Lookup(device, "site"))
    ELSE PStr("")

\* lines 206-239: the body of the wireless-link rule
WirelessField(obj, field) ==
    LET attr == IF field \in {"device_a", "interface_a", "site_a"}
                THEN "interface_a" ELSE "interface_b"
        present == hasattr(obj, attr) /\ Truthy(Lookup(obj, attr))
        iface == getattr(obj, attr, None)
    IN  IF ~present THEN PStr("")
        ELSE CASE field \in {"device_a", "device_b"} ->
                    IF DeviceOf(iface) # None THEN NameOrStr(DeviceOf(iface)) ELSE PStr("")
               [] field \in {"interface_a", "interface_b"} ->
                    IF hasattr(iface, "name") THEN PStr(Str(Lookup(iface, "name")))
                    ELSE PStr("")
               [] OTHER ->
                    IF DeviceOf(iface) # None THEN SiteNameOf(DeviceOf(iface)) ELSE PStr("")

LastTermination(terminations) ==
    IF ~Truthy(terminations) \/ terminations.t # "list" THEN None
    ELSE terminations.v[Len(terminations.v)]

\* terminations[0] guarded by "terminations and len(terminations) > 0"
\* (None when the guard is false; len() of an object handle and [0] of a
\* mapping raise)
FirstTermination(terminations) ==
    IF ~Truthy(terminations) THEN None
    ELSE CASE terminations.t = "list" -> terminations.v[1]
           [] terminations.t = "str" -> PStr(Head(terminations.v))
           [] OTHER -> Raised

\* lines 244-303: the body of the cable-termination rule
CableField(obj, field) ==
    LET attr == IF field \in {"side_a_device", "side_a_type", "side_a_name", "side_a_site"}
                THEN "a_terminations" ELSE "b_terminations"
        term == FirstTermination(getattr(obj, attr, PList(<<>>)))
    IN  IF term = Raised THEN Raised
        ELSE IF term = None THEN PStr("")
        ELSE CASE field \in {"side_a_device", "side_b_device"} ->
                    IF DeviceOf(term) # None THEN NameOrStr(DeviceOf(term)) ELSE PStr("")
               [] field \in {"side_a_type", "side_b_type"} ->
                    IF hasattr(term, "type") /\ Truthy(Lookup(term, "type"))
                    THEN PStr(Str(Lookup(term, "type"))) ELSE PStr("")
               [] field \in {"side_a_name", "side_b_name"} ->
                    IF hasattr(term, "name") /\ Truthy(Lookup(term, "name"))
                    THEN PStr(Str(Lookup(term, "name"))) ELSE PStr("")
               [] OTHER ->
                    IF DeviceOf(term) # None THEN SiteNameOf(DeviceOf(term)) ELSE PStr("")

\* line 312
relationship_name_fields ==
    {"parent", "region", "tenant", "site", "location", "rack",
     "manufacturer", "device_type", "device_role", "role", "platform",
     "cluster", "cluster_type", "cluster_group", "circuit", "circuit_type",
     "circuit_provider", "provider", "virtual_chassis", "config_template",
     "fhrp_group", "l2vpn", "virtual_circuit", "vrf", "group"}

RelationshipNameSwapped(value) ==
    IF isdict(value)
    THEN IF InDict(value, "id") THEN PStr(Str(Lookup(value, "id")))
         ELSE IF InDict(value, "name") THEN PStr(Str(Lookup(value, "name")))
         ELSE Fallthrough
    ELSE IF hasattr(value, "id") THEN Lookup(value, "id")
    ELSE IF hasattr(value, "name") THEN Lookup(value, "name")
    ELSE Fallthrough

\* lines 320-330: the body of the named-relationship rule
RelationshipName(value) ==
    IF isdict(value)
    THEN IF InDict(value, "name") THEN PStr(Str(Lookup(value, "name")))
         ELSE IF InDict(value, "id") THEN PStr(Str(Lookup(value, "id")))
         ELSE Fallthrough
    ELSE IF hasattr(value, "name") THEN Lookup(value, "name")
    ELSE IF hasattr(value, "id") THEN Lookup(value, "id")
    ELSE Fallthrough

\* lines 340, 364
value_preferred_fields == {"action_type", "status"}

\* d[key] when "key in d and d[key]" holds, else None
TruthyItem(d, key) ==
    IF InDict(d, key) /\ Truthy(Lookup(d, key)) THEN Lookup(d, key) ELSE None

ChoiceValueAlwaysLabel(d, field) ==
    IF TruthyItem(d, "label") # None THEN PStr(Str(TruthyItem(d, "label")))
    ELSE IF TruthyItem(d, "value") # None THEN PStr(Str(TruthyItem(d, "value")))
    ELSE IF Len(d.v) > 0 THEN PStr(Str(FirstValue(d)))
    ELSE Fallthrough

\* lines 340-356 and 364-380: value/label of a mapping
ChoiceValue(d, field) ==
    LET first == IF field \in value_preferred_fields THEN "value" ELSE "label"
        second == IF field \in value_preferred_fields THEN "label" ELSE "value"
    IN  IF TruthyItem(d, first) # None THEN PStr(Str(TruthyItem(d, first)))
        ELSE IF TruthyItem(d, second) # None THEN PStr(Str(TruthyItem(d, second)))
        ELSE IF Len(d.v) > 0 THEN PStr(Str(FirstValue(d)))
        ELSE Fallthrough

\* lines 399-404
GenericReference(value) ==
    IF hasattr(value, "name") THEN Lookup(value, "name")
    ELSE IF hasattr(value, "slug") THEN Lookup(value, "slug")
    ELSE IF hasattr(value, "id") THEN Lookup(value, "id")
    ELSE Fallthrough

\* lines 413-418: what one list element contributes
TagValue(item) ==
    IF hasattr(item, "slug") THEN Str(Lookup(item, "slug"))
    ELSE IF hasattr(item, "name") THEN Str(Lookup(item, "name"))
    ELSE Str(item)

\* lines 407-419
ListValue(value) ==
    IF Len(value.v) = 0 THEN PStr("")
    ELSE PStr(Join(",", [i \in 1..Len(value.v) |-> TagValue(value.v[i])]))

\* lines 360-422: the rules behind the Record rule
AfterRecordRule(value, field) ==
    IF isdict(value)
    THEN (IF ChoiceValue(value, field) # Fallthrough
          THEN ChoiceValue(value, field) ELSE PStr(""))
    ELSE IF field = "action_object" /\ hasattr(value, "name") THEN Lookup(value, "name")
    ELSE IF GenericReference(value) # Fallthrough THEN GenericReference(value)
    ELSE IF islist(value) THEN ListValue(value)
    ELSE PStr(Str(value))

\* lines 318-330: the named-relationship rule
RelationshipRule(value, field) ==
    IF field \in relationship_name_fields THEN RelationshipName(value) ELSE Fallthrough

\* lines 310-422: the rules applied to a non-None attribute value
ResolveValue(value, field) ==
    LET rel == RelationshipRule(value, field)
        rec == IF IsRecordType(value)
               THEN ChoiceValue(PDict(value.v), field) ELSE Fallthrough
    IN  IF rel # Fallthrough THEN rel
        ELSE IF rec # Fallthrough THEN rec
        ELSE AfterRecordRule(value, field)

BaseLookupNoNoneCheck(obj, field) ==
    PStr(Str(getattr(obj, field, None)))

\* lines 305-422
BaseLookup(obj, field) ==
    LET value == getattr(obj, field, None)
    IN  IF value = None THEN PStr("") ELSE ResolveValue(value, field)

\* lines 203-422: the rules behind the assigned-object rule
AfterAssignedObjectRule(obj, field) ==
    IF (hasattr(obj, "interface_a") \/ hasattr(obj, "interface_b"))
       /\ field \in wireless_fields
    THEN WirelessField(obj, field)
    ELSE IF (hasattr(obj, "a_terminations") \/ hasattr(obj, "b_terminations"))
            /\ field \in cable_fields
    THEN CableField(obj, field)
    ELSE BaseLookup(obj, field)

extract_field_valueOwnAttribute(obj, field) ==
    IF Truthy(AssignedObject(obj)) /\ field \in assigned_object_fields
       /\ AssignedObjectField(AssignedObject(obj), field) # PStr("")
    THEN AssignedObjectField(AssignedObject(obj), field)
    ELSE AfterAssignedObjectRule(obj, field)

\* lines 144-422
extract_field_value(obj, field) ==
    IF Truthy(AssignedObject(obj)) /\ field \in assigned_object_fields
    THEN AssignedObjectField(AssignedObject(obj), field)
    ELSE AfterAssignedObjectRule(obj, field)

\* The two try blocks of extract_field_value end in a bare "except: pass"
\* (lines 165-166 and 357-358), which catches KeyboardInterrupt as well.
\* An interrupt delivered while hasattr, getattr or dict(obj) of lines
\* 159-164 run leaves assigned_obj None and the call goes on at line 168;
\* one delivered while lines 336-356 run leaves the Record rule without a
\* result and the call goes on at line 361.
SwallowingBlocks == {"assigned_object", "record"}

\* the call reaches the try block of lines 335-358
ReachesRecordRule(obj, field) ==
    /\ ~(Truthy(AssignedObject(obj)) /\ field \in assigned_object_fields)
    /\ ~((hasattr(obj, "interface_a") \/ hasattr(obj, "interface_b"))
          /\ field \in wireless_fields)
    /\ ~((hasattr(obj, "a_terminations") \/ hasattr(obj, "b_terminations"))
          /\ field \in cable_fields)
    /\ getattr(obj, field, None) # None
    /\ RelationshipRule(getattr(obj, field, None), field) = Fallthrough
    /\ IsRecordType(getattr(obj, field, None))

\* what the call returns when an interrupt is swallowed in the block
extract_field_valueInterrupted(obj, field, block) ==
    IF block = "assigned_object" THEN AfterAssignedObjectRule(obj, field)
    ELSE AfterRecordRule(getattr(obj, field, None), field)

NormalizeNoCollapse(str_value) ==
    ReplaceChar(ReplaceChar(ReplaceCRLF(str_value), "\n"), "\r")

\* lines 515-517
Normalize(str_value) ==
    Join(" ", Split(ReplaceChar(ReplaceChar(ReplaceCRLF(str_value), "\n"), "\r")))

\* lines 493-505: the value of one field of one object
RowValue(obj, field) ==
    IF field = "action_object"
    THEN LET ao == getattr(obj, "action_object", None)
         IN  IF Truthy(ao)
             THEN IF hasattr(ao, "name") THEN Lookup(ao, "name")
                  ELSE IF isdict(ao) /\ InDict(ao, "name") THEN Lookup(ao, "name")
                  ELSE extract_field_value(obj, field)
             ELSE PStr("")
    ELSE extract_field_value(obj, field)

\* lines 508-518: the string placed in the row
CellOf(value) ==
    IF value = None \/ value = PStr("") THEN "" ELSE Normalize(Str(value))

-----------------------------------------------------------------------------
(* Inputs of one evaluation: objects and field names                       *)

\* longest attribute text drawn
MaxLen == 3
\* longest list value drawn
MaxListLen == 2

Alphabet == {"a", " ", "\n", "\r", "\t"}

RECURSIVE StringsOfLen(_)
StringsOfLen(n) ==
    IF n = 0 THEN {""} ELSE {s \o c : s \in StringsOfLen(n - 1), c \in Alphabet}

Strings == UNION {StringsOfLen(n) : n \in 0..MaxLen}

\* every arrangement of some of the given items, without repetition
RECURSIVE Arrangements(_)
Arrangements(items) ==
    {<<>>} \cup UNION {{<<i>> \o rest : rest \in Arrangements(items \ {i})} : i \in items}

ReferenceKinds == {"dict", "record", "obj"}

\* reference objects: some of id, name, slug, in any order
ReferenceItems ==
    UNION {Arrangements({Item("id", PInt(7)), Item("name", n), Item("slug", PStr("s"))})
           : n \in {PStr("n"), PStr("")}}
References == {[t |-> kind, v |-> items] : kind \in ReferenceKinds, items \in ReferenceItems}

\* choice records {value, label}, as a plain mapping or a Record
ChoiceItems ==
    UNION {{<<Item("value", val), Item("label", lab)>>, <<Item("label", lab), Item("value", val)>>}
           : val \in {PStr("active"), PStr(""), PInt(0), PInt(1), None},
             lab \in {PStr("Active"), PStr(""), None}}
Choices == {[t |-> kind, v |-> items] : kind \in {"dict", "record"}, items \in ChoiceItems}

Scalars == {None, PInt(0), PInt(7), PStr("x")}

\* list elements: tags as mappings or handles, and scalars
Elements ==
    {[t |-> kind, v |-> items] :
        kind \in ReferenceKinds,
        items \in {<<Item("slug", PStr("a"))>>, <<Item("name", PStr("b"))>>,
                   <<Item("name", PStr("b")), Item("slug", PStr("a"))>>,
                   <<Item("id", PInt(7))>>}}
    \cup {PStr("x"), PInt(3)}

RECURSIVE ListsOfLen(_)
ListsOfLen(n) ==
    IF n = 0 THEN {<<>>} ELSE {l \o <<e>> : l \in ListsOfLen(n - 1), e \in Elements}
Lists == {PList(l) : l \in UNION {ListsOfLen(n) : n \in 0..MaxListLen}}

\* an object with one attribute
Obj1(key, x) == PRecord(<<Item(key, x)>>)
\* an object with two attributes
Obj2(k1, x1, k2, x2) == PRecord(<<Item(k1, x1), Item(k2, x2)>>)

Device(name) == PRecord(<<Item("id", PInt(7)), Item("name", PStr(name))>>)

\* address-like, wireless-link-like and cable-like objects
SpecialObjects ==
    {Obj1("assigned_object", a) :
        a \in {PDict(<<Item("name", PStr("eth0")),
                       Item("device", PDict(<<Item("name", PStr("rtr1"))>>))>>),
               PRecord(<<Item("name", PStr("eth0")), Item("device", Device("rtr1"))>>),
               PRecord(<<Item("name", PStr("eth0")),
                         Item("virtual_machine", Device("vm1"))>>),
               PDict(<<Item("id", PInt(7))>>),
               PRecord(<<Item("id", PInt(7))>>),
               None}}
    \cup {Obj2("assigned_object", PRecord(<<Item("id", PInt(7))>>), "device", Device("own"))}
    \cup {Obj1("interface_a", i) :
            i \in {PRecord(<<Item("name", PStr("wlan0")), Item("device", Device("ap1"))>>),
                   None}}
    \cup {Obj1("a_terminations", l) :
            l \in {PList(<<>>), None,
                   PList(<<PRecord(<<Item("name", PStr("eth1")),
                                     Item("device", Device("rtr1"))>>)>>),
                   PList(<<PRecord(<<Item("device", Device("rtr1"))>>),
                           PRecord(<<Item("device", Device("rtr2"))>>)>>)}}

\* a device handle with its site
DeviceAt(name, site) ==
    PRecord(<<Item("id", PInt(7)), Item("name", PStr(name)), Item("site", site)>>)

\* cable terminations: an interface of a device, with or without site, name
\* and type; a termination without device (a circuit termination); a device
\* handle without name; a plain mapping
Terminations ==
    {PRecord(<<Item("type", PStr("dcim.interface")), Item("name", PStr("eth1")),
               Item("device", DeviceAt("rtr1", Device("dc1")))>>),
     PRecord(<<Item("type", PStr("dcim.interface")), Item("name", PStr("eth2")),
               Item("device", DeviceAt("rtr2", Device("dc2")))>>),
     PRecord(<<Item("name", PStr("eth3")), Item("device", DeviceAt("rtr3", None))>>),
     PRecord(<<Item("type", None), Item("name", PStr("")), Item("device", Device("rtr4"))>>),
     PRecord(<<Item("type", PStr("circuits.circuittermination")), Item("device", None)>>),
     PRecord(<<Item("id", PInt(7))>>),
     PObj(<<Item("device", PObj(<<Item("id", PInt(7)),
                                  Item("site", PObj(<<Item("id", PInt(7))>>))>>))>>),
     PDict(<<Item("name", PStr("eth1")),
             Item("device", PDict(<<Item("name", PStr("rtr1"))>>))>>)}

RECURSIVE TerminationListsOfLen(_)
TerminationListsOfLen(n) ==
    IF n = 0 THEN {<<>>}
    ELSE {l \o <<e>> : l \in TerminationListsOfLen(n - 1), e \in Terminations}
TerminationLists ==
    {None} \cup {PList(l) : l \in UNION {TerminationListsOfLen(n) : n \in 0..MaxListLen}}

\* cables: one side, or both
CableObjects ==
    {Obj1(k, l) : k \in {"a_terminations", "b_terminations"}, l \in TerminationLists}
    \cup {Obj2("a_terminations", PList(<<a>>), "b_terminations", PList(<<b>>)) :
            a \in Terminations, b \in Terminations}

\* what an assigned object holds besides its name: nothing, a device or a
\* virtual machine. A handle holds handles (pynetbox wraps the mappings
\* nested in a Record); a plain mapping holds mappings or handles.
NestedOf(kind) ==
    {<<>>}
    \cup {<<Item(k, x)>> :
            k \in {"device", "virtual_machine"},
            x \in {None, Device("rtr1"), PRecord(<<Item("id", PInt(7))>>),
                   PObj(<<Item("name", PStr("rtr1"))>>), PObj(<<Item("id", PInt(7))>>)}
                  \cup (IF kind = "dict"
                        THEN {PDict(<<Item("name", PStr("rtr1"))>>), PDict(<<Item("id", PInt(7))>>)}
                        ELSE {})}

\* assigned objects: an interface as a plain mapping or a handle
AssignedObjects ==
    UNION {{[t |-> kind, v |-> name \o nested] :
                name \in {<<>>, <<Item("name", PStr("eth0"))>>},
                nested \in NestedOf(kind)}
           : kind \in ReferenceKinds}

\* addresses: an assigned object (present, empty or null), and in some an own
\* attribute called like a field the assigned-object rule resolves
AddressObjects ==
    {Obj1("assigned_object", a) : a \in AssignedObjects}
    \cup {Obj2("assigned_object", a, k, Device("own")) :
            a \in AssignedObjects \cup {None, PDict(<<>>)},
            k \in {"device", "virtual_machine", "interface"}}

ValueAttrs == {"status", "action_type", "role", "owner", "device", "action_object"}

Objects ==
    {Obj1(k, x) : k \in ValueAttrs, x \in References \cup Choices \cup Scalars}
    \cup {Obj1(k, x) : k \in {"tags", "role"}, x \in Lists}
    \cup {Obj1("description", PStr(s)) : s \in Strings}
    \cup SpecialObjects
    \cup CableObjects
    \cup AddressObjects

Fields == {"status", "action_type", "role", "owner", "device", "action_object", "tags",
           "description",
           "interface", "virtual_machine", "device_a"}
          \cup cable_fields

-----------------------------------------------------------------------------
(* One evaluation of extract_field_value, and of one row cell               *)

XInit ==
    /\ x_pc = "input"
    /\ x_obj \in Objects
    /\ x_field \in Fields
    /\ x_value = None
    /\ x_cell = ""

\* a call extract_field_value(x_obj, x_field)
XExtract ==
    /\ x_pc = "input"
    /\ x_value' = extract_field_value(x_obj, x_field)
    /\ x_pc' = "extracted"
    /\ UNCHANGED <<x_obj, x_field, x_cell>>

\* lines 488-518 for one field of one object
XRowCell ==
    /\ x_pc = "input"
    /\ x_value' = RowValue(x_obj, x_field)
    /\ x_cell' = CellOf(RowValue(x_obj, x_field))
    /\ x_pc' = "cell"
    /\ UNCHANGED <<x_obj, x_field>>

-----------------------------------------------------------------------------
(* get_netbox_endpoint (lines 14-141)                                      *)

\* lines 26-119: object type, API application, resource
endpoint_map ==
    {<<"tags", "extras", "tags">>,
     <<"data-sources", "core", "data_sources">>,
     <<"webhooks", "extras", "webhooks">>,
     <<"event-rules", "extras", "event_rules">>,
     <<"config-templates", "extras", "config_templates">>,
     <<"export-templates", "extras", "export_templates">>,
     <<"regions", "dcim", "regions">>,
     <<"sites", "dcim", "sites">>,
     <<"site-groups", "dcim", "site_groups">>,
     <<"locations", "dcim", "locations">>,
     <<"racks", "dcim", "racks">>,
     <<"devices", "dcim", "devices">>,
     <<"virtual-chassis", "dcim", "virtual_chassis">>,
     <<"virtual-device-contexts", "dcim", "virtual_device_contexts">>,
     <<"platforms", "dcim", "platforms">>,
     <<"modules", "dcim", "modules">>,
     <<"inventory-item-roles", "dcim", "inventory_item_roles">>,
     <<"inventory-items", "dcim", "inventory_items">>,
     <<"rear-ports", "dcim", "rear_ports">>,
     <<"front-ports", "dcim", "front_ports">>,
     <<"console-ports", "dcim", "console_ports">>,
     <<"console-server-ports", "dcim", "console_server_ports">>,
     <<"power-ports", "dcim", "power_ports">>,
     <<"power-outlets", "dcim", "power_outlets">>,
     <<"power-panels", "dcim", "power_panels">>,
     <<"power-feeds", "dcim", "power_feeds">>,
     <<"module-bays", "dcim", "module_bays">>,
     <<"device-bays", "dcim", "device_bays">>,
     <<"interfaces", "dcim", "interfaces">>,
     <<"mac-addresses", "dcim", "mac_addresses">>,
     <<"cables", "dcim", "cables">>,
     <<"wireless-links", "wireless", "wireless_links">>,
     <<"wireless-lan-groups", "wireless", "wireless_lan_groups">>,
     <<"wireless-lans", "wireless", "wireless_lans">>,
     <<"vpn-tunnel-groups", "vpn", "tunnel_groups">>,
     <<"vpn-tunnels", "vpn", "tunnels">>,
     <<"tunnel-terminations", "vpn", "tunnel_terminations">>,
     <<"l2vpn", "vpn", "l2vpns">>,
     <<"l2vpn-terminations", "vpn", "l2vpn_terminations">>,
     <<"ike-proposals", "vpn", "ike_proposals">>,
     <<"ike-policies", "vpn", "ike_policies">>,
     <<"ipsec-proposals", "vpn", "ipsec_proposals">>,
     <<"ipsec-policies", "vpn", "ipsec_policies">>,
     <<"ipsec-profiles", "vpn", "ipsec_profiles">>,
     <<"cluster-groups", "virtualization", "cluster_groups">>,
     <<"cluster-types", "virtualization", "cluster_types">>,
     <<"clusters", "virtualization", "clusters">>,
     <<"virtual-machines", "virtualization", "virtual_machines">>,
     <<"vm-interfaces", "virtualization", "interfaces">>,
     <<"virtual-disks", "virtualization", "virtual_disks">>,
     <<"manufacturers", "dcim", "manufacturers">>,
     <<"device-types", "dcim", "device_types">>,
     <<"module-type-profiles", "dcim", "module_type_profiles">>,
     <<"module-types", "dcim", "module_types">>,
     <<"device-roles", "dcim", "device_roles">>,
     <<"rack-types", "dcim", "rack_types">>,
     <<"rack-roles", "dcim", "rack_roles">>,
     <<"reservations", "dcim", "rack_reservations">>,
     <<"circuits", "circuits", "circuits">>,
     <<"circuit-providers", "circuits", "providers">>,
     <<"providers", "circuits", "providers">>,
     <<"circuit-provider-accounts", "circuits", "provider_accounts">>,
     <<"circuit-groups", "circuits", "circuit_groups">>,
     <<"circuit-types", "circuits", "circuit_types">>,
     <<"circuit-terminations", "circuits", "circuit_terminations">>,
     <<"provider-networks", "circuits", "provider_networks">>,
     <<"virtual-circuits", "circuits", "virtual_circuits">>,
     <<"virtual-circuit-terminations", "circuits", "virtual_circuit_terminations">>,
     <<"circuit-assignments", "circuits", "circuit_group_assignments">>,
     <<"tenants", "tenancy", "tenants">>,
     <<"tenant-groups", "tenancy", "tenant_groups">>,
     <<"contacts", "tenancy", "contacts">>,
     <<"contact-groups", "tenancy", "contact_groups">>,
     <<"contact-roles", "tenancy", "contact_roles">>,
     <<"contact-assignments", "tenancy", "contact_assignments">>,
     <<"vlan-groups", "ipam", "vlan_groups">>,
     <<"vlans", "ipam", "vlans">>,
     <<"vlan-translation-policies", "ipam", "vlan_translation_policies">>,
     <<"vlan-translation-rules", "ipam", "vlan_translation_rules">>,
     <<"vrfs", "ipam", "vrfs">>,
     <<"route-targets", "ipam", "route_targets">>,
     <<"prefixes", "ipam", "prefixes">>,
     <<"roles", "ipam", "roles">>,
     <<"ip-addresses", "ipam", "ip_addresses">>,
     <<"ip-ranges", "ipam", "ip_ranges">>,
     <<"fhrp-groups", "ipam", "fhrp_groups">>,
     <<"service-templates", "ipam", "service_templates">>,
     <<"services", "ipam", "services">>,
     <<"asns", "ipam", "asns">>,
     <<"asn-ranges", "ipam", "asn_ranges">>,
     <<"rirs", "ipam", "rirs">>,
     <<"aggregates", "ipam", "aggregates">>}

InEndpointMap(key) == \E e \in endpoint_map : e[1] = key
EndpointMapGet(key) ==
    LET e == CHOOSE e \in endpoint_map : e[1] = key IN [app |-> e[2], res |-> e[3]]

RECURSIVE ReplaceHyphens(_)
\* s.replace('-', '_')
ReplaceHyphens(s) ==
    IF s = "" THEN ""
    ELSE (IF Head(s) = "-" THEN "_" ELSE Head(s)) \o ReplaceHyphens(Tail(s))

RECURSIVE SplitOnFrom(_, _, _)
SplitOnFrom(s, sep, part) ==
    IF s = "" THEN <<part>>
    ELSE IF Head(s) = sep THEN <<part>> \o SplitOnFrom(Tail(s), sep, "")
    ELSE SplitOnFrom(Tail(s), sep, part \o Head(s))

\* s.split(sep) for a one-character sep
SplitOn(s, sep) == SplitOnFrom(s, sep, "")

\* The client nb, as far as hasattr and getattr see it: the names of its
\* attributes (attrs), those of them that answer every attribute name (any:
\* a pynetbox App builds an endpoint for whatever name it is asked), and the
\* attributes of the others (has: pairs of attribute and sub-attribute).
\* Every client has the applications and resources of lines 27-118: the
\* table is built from them before anything is looked up.
TableApps == {e[2] : e \in endpoint_map}
TableResources == {<<e[2], e[3]>> : e \in endpoint_map}

\* line 546: pynetbox.api(url, token=...): the applications answer every
\* name; token is a string, it has the methods of a string
pynetbox_api ==
    [attrs |-> TableApps \cup {"users", "plugins", "token"},
     any |-> TableApps \cup {"users", "plugins"},
     has |-> {<<"token", "upper">>}]

\* a client whose applications have the resources of the table, one more
\* resource (dcim.frobs) and nothing else
ClosedClient ==
    [attrs |-> TableApps,
     any |-> {},
     has |-> TableResources \cup {<<"dcim", "frobs">>}]

\* hasattr(nb, module)
nb_hasattr(nb, module) == module \in nb.attrs

\* hasattr(getattr(nb, module), resource)
nb_module_hasattr(nb, module, resource) ==
    module \in nb.any \/ <<module, resource>> \in nb.has

\* the ValueError of line 141
UnknownObjectType == [app |-> "", res |-> ""]

get_netbox_endpointAnyParts(nb, object_type) ==
    LET parts == SplitOn(object_type, "-")
    IN  IF InEndpointMap(object_type) THEN EndpointMapGet(object_type)
        ELSE IF Len(parts) >= 2
                /\ nb_hasattr(nb, parts[1])
                /\ nb_module_hasattr(nb, parts[1], ReplaceHyphens(parts[2]))
             THEN [app |-> parts[1], res |-> ReplaceHyphens(parts[2])]
        ELSE UnknownObjectType

\* lines 121-141
get_netbox_endpoint(nb, object_type) ==
    LET object_type_underscore == ReplaceHyphens(object_type)
        parts == SplitOn(object_type, "-")
    IN  IF InEndpointMap(object_type) THEN EndpointMapGet(object_type)
        ELSE IF InEndpointMap(object_type_underscore)
             THEN EndpointMapGet(object_type_underscore)
        ELSE IF Len(parts) = 2
                /\ nb_hasattr(nb, parts[1])
                /\ nb_module_hasattr(nb, parts[1], ReplaceHyphens(parts[2]))
             THEN [app |-> parts[1], res |-> ReplaceHyphens(parts[2])]
        ELSE UnknownObjectType

\* the type names the resolver is given: the identifiers of the table, the
\* same with underscores, and names the table does not have
TypeNames ==
    {e[1] : e \in endpoint_map}
    \cup {ReplaceHyphens(e[1]) : e \in endpoint_map}
    \cup {"dcim-frobs", "dcim-device_types", "dcim_frobs", "frobs", "nope-frobs",
          "token-upper", "token-frobs", "dcim-device-types", "a-b-c",
          "dcim-frobs-", "-dcim-frobs", "dcim--frobs", "dcim-", "-frobs", "-", ""}

\* one call of get_netbox_endpoint, and the fetch backup_from_config issues on
\* the endpoint it got (line 464)
ResolveInit ==
    /\ r_pc = "input"
    /\ r_nb \in {pynetbox_api, ClosedClient}
    /\ r_type \in TypeNames
    /\ r_endpoint = UnknownObjectType
    /\ r_fetches = 0

\* line 457
ResolveEndpoint ==
    /\ r_pc = "input"
    /\ r_endpoint' = get_netbox_endpoint(r_nb, r_type)
    /\ r_pc' = IF r_endpoint' = UnknownObjectType THEN "unknown" ELSE "resolved"
    /\ UNCHANGED <<r_nb, r_type, r_fetches>>

\* line 464
ResolveFetch ==
    /\ r_pc = "resolved"
    /\ r_fetches' = r_fetches + 1
    /\ r_pc' = "fetched"
    /\ UNCHANGED <<r_nb, r_type, r_endpoint>>

-----------------------------------------------------------------------------
(* File names (lines 447-453, 565-572, 576-594)                             *)

IsDigit(c) == c \in {"0", "1", "2", "3", "4", "5", "6", "7", "8", "9"}

RECURSIVE LeadingDigits(_)
\* how many characters \d+ takes at the start of s
LeadingDigits(s) ==
    IF s # "" /\ IsDigit(Head(s)) THEN 1 + LeadingDigits(Tail(s)) ELSE 0

DigitValue(c) == CHOOSE d \in 0..9 : Digits[d + 1] = c

RECURSIVE ParseInt(_)
\* int(s) for a string of digits
ParseInt(s) ==
    IF s = "" THEN 0
    ELSE ParseInt(SubSeq(s, 1, Len(s) - 1)) * 10 + DigitValue(SubSeq(s, Len(s), Len(s)))

\* re.match(r'(\d+)-', s) matched
MatchesPrefix(s) ==
    LET n == LeadingDigits(s) IN n >= 1 /\ Len(s) > n /\ SubSeq(s, n + 1, n + 1) = "-"

\* re.match(r'\d+-(.+)', s) matched
MatchesPrefixAndType(s) == MatchesPrefix(s) /\ Len(s) > LeadingDigits(s) + 1

\* match.group(1) of re.match(r'\d+-(.+)', s)
TypeOf(s) == SubSeq(s, LeadingDigits(s) + 2, Len(s))

\* path.name
NameOf(path) == path.stem \o "." \o path.ext

\* lines 566-570; float('inf') is [inf |-> TRUE]
get_sort_key(path) ==
    IF MatchesPrefix(NameOf(path))
    THEN [inf |-> FALSE, n |-> ParseInt(SubSeq(NameOf(path), 1, LeadingDigits(NameOf(path))))]
    ELSE [inf |-> TRUE, n |-> 0]

\* a < b on sort keys
KeyLess(a, b) == IF a.inf THEN FALSE ELSE IF b.inf THEN TRUE ELSE a.n < b.n

RECURSIVE InsertByKey(_, _)
\* path inserted behind every file whose key is not greater (the sort is stable)
InsertByKey(sorted, path) ==
    IF sorted = <<>> THEN <<path>>
    ELSE IF KeyLess(get_sort_key(path), get_sort_key(Head(sorted)))
         THEN <<path>> \o sorted
         ELSE <<Head(sorted)>> \o InsertByKey(Tail(sorted), path)

RECURSIVE SortedFrom(_, _)
SortedFrom(files, sorted) ==
    IF files = <<>> THEN sorted
    ELSE SortedFrom(Tail(files), InsertByKey(sorted, Head(files)))

SortUnsorted(files) == files

\* line 572: config_files.sort(key=get_sort_key)
SortFiles(files) == SortedFrom(files, <<>>)

\* lines 577-584
NormalizedTypes(types) ==
    {IF MatchesPrefixAndType(types[i]) THEN TypeOf(types[i]) ELSE types[i]
        : i \in 1..Len(types)}

FilterKeepsAll(files, normalized_types) == files

RECURSIVE FilterFiles(_, _)
\* lines 587-596
FilterFiles(files, normalized_types) ==
    IF files = <<>> THEN <<>>
    ELSE (IF MatchesPrefixAndType(Head(files).stem)
             /\ TypeOf(Head(files).stem) \in normalized_types
          THEN <<Head(files)>> ELSE <<>>)
         \o FilterFiles(Tail(files), normalized_types)

RemoveIdKeepsAll(fields) == fields

RECURSIVE RemoveId(_)
\* line 442: [f for f in fields if f != 'id']
RemoveId(fields) ==
    IF fields = <<>> THEN <<>>
    ELSE (IF Head(fields) # "id" THEN <<Head(fields)>> ELSE <<>>) \o RemoveId(Tail(fields))

-----------------------------------------------------------------------------
(* Inputs of a run: the conf/ directory, the arguments, the environment     *)

\* most configuration files in conf/
MaxFiles == 3
\* most objects one bulk fetch returns
MaxObjects == 2

FieldList(names) == PList([i \in 1..Len(names) |-> PStr(names[i])])
\* what yaml.safe_load returns for "fields: [...]"
ConfigWith(names) == PDict(<<Item("fields", FieldList(names))>>)

\* some configuration files: stem, extension, parsed YAML content
CandidateFiles ==
    {[stem |-> "1-sites", ext |-> "yml", config |-> c] :
        c \in {ConfigWith(<<"id", "name", "region", "status">>),
               ConfigWith(<<"id">>),
               PDict(<<>>)}}
    \cup {[stem |-> "2-bogus", ext |-> "yml", config |-> ConfigWith(<<"name">>)]}
    \cup {[stem |-> "10-tags", ext |-> "yml", config |-> c] :
            c \in {ConfigWith(<<"name", "id", "description">>), ConfigWith(<<>>)}}
    \cup {[stem |-> "3-", ext |-> "yml", config |-> ConfigWith(<<"name">>)]}
    \cup {[stem |-> "sites", ext |-> "yaml", config |-> ConfigWith(<<"name">>)]}

RECURSIVE Directories(_)
\* the listings of a conf/ directory with n files (line 559): the *.yml
\* files in any order glob may give, the *.yaml files behind them
Directories(n) ==
    IF n = 0 THEN {<<>>}
    ELSE UNION {{d \o <<f>> : f \in {g \in CandidateFiles :
                                        \A i \in 1..Len(d) :
                                            /\ d[i].stem # g.stem
                                            /\ d[i].ext = "yaml" => g.ext = "yaml"}}
                : d \in Directories(n - 1)}

\* the objects of a collection, in the order the API lists them
RunObjects ==
    <<PRecord(<<Item("id", PInt(1)), Item("name", PStr("site-a")),
               Item("region", PRecord(<<Item("id", PInt(7)), Item("name", PStr("EMEA"))>>)),
               Item("status", PRecord(<<Item("value", PStr("active")),
                                        Item("label", PStr("Active"))>>)),
               Item("description", PStr("two\nlines"))>>),
     PRecord(<<Item("id", PInt(2)), Item("name", PStr("site-b")),
               Item("region", None),
               Item("status", PRecord(<<Item("value", PStr("planned")),
                                        Item("label", PStr("Planned"))>>))>>)>>

\* a collection of n objects
ObjectLists(n) == [k \in 1..n |-> RunObjects[((k - 1) % Len(RunObjects)) + 1]]

\* what endpoint.all() may return: a collection of any size
FetchResults == {ObjectLists(n) : n \in 0..MaxObjects}

\* the object_types argument: None, or the types named on the command line
ObjectTypeArgs == {None, PList(<<"sites">>), PList(<<"10-tags", "bogus">>), PList(<<"vlans">>)}

\* connection settings present, conf/ present, output/ holding files of an
\* earlier run
Environments ==
    {[url |-> TRUE, key |-> TRUE, conf |-> TRUE, stale |-> st] : st \in BOOLEAN}
    \cup {[url |-> FALSE, key |-> TRUE, conf |-> TRUE, stale |-> FALSE],
          [url |-> TRUE, key |-> FALSE, conf |-> TRUE, stale |-> FALSE],
          [url |-> TRUE, key |-> TRUE, conf |-> FALSE, stale |-> FALSE]}

NoFile == [exists |-> FALSE, header |-> <<>>, rows |-> <<>>]
StaleFile == [exists |-> TRUE, header |-> <<"stale">>, rows |-> <<>>]
OutputNames == {f.stem \o ".csv" : f \in CandidateFiles}
InitialOutput(e) == [n \in OutputNames |-> IF e.stale THEN StaleFile ELSE NoFile]

NoCall == [path |-> "", fields |-> <<>>, object_type |-> "",
           endpoint |-> UnknownObjectType, objects |-> <<>>]

Event(ev, name) == [ev |-> ev, name |-> name]

-----------------------------------------------------------------------------
(* backup_all (lines 525-604) and backup_from_config (lines 425-522)        *)

RunInit ==
    /\ pc = "start"
    /\ conf_dir \in UNION {Directories(n) : n \in 0..MaxFiles}
    /\ object_types \in ObjectTypeArgs
    /\ env \in Environments
    /\ config_files = <<>>
    /\ idx = 1
    /\ cur = NoCall
    /\ output = InitialOutput(env)
    /\ log = <<>>
    /\ interrupted = FALSE

\* lines 534-600: connection settings, discovery, sort, filter
Start ==
    /\ pc = "start"
    /\ UNCHANGED <<conf_dir, object_types, env, idx, cur, output>>
    /\ IF ~env.url \/ ~env.key \/ ~env.conf
       THEN /\ pc' = "raised"
            /\ log' = Append(log, Event("error", ""))
            /\ UNCHANGED config_files
       ELSE IF conf_dir = <<>>
       THEN /\ pc' = "returned"
            /\ log' = Append(log, Event("print_no_files", ""))
            /\ UNCHANGED config_files
       ELSE LET sorted == SortFiles(conf_dir)
                selected == IF Truthy(object_types)
                            THEN FilterFiles(sorted, NormalizedTypes(object_types.v))
                            ELSE sorted
            IN  /\ config_files' = selected
                /\ IF selected = <<>>
                   THEN /\ pc' = "returned"
                        /\ log' = Append(log, Event("print_no_match", ""))
                   ELSE /\ pc' = "loop"
                        /\ UNCHANGED log

\* the configured fields: config.get('fields', []) (line 437)
ConfiguredFields(config) == DictGet(config, "fields", PList(<<>>))

FieldNames(fields) == [i \in 1..Len(fields.v) |-> fields.v[i].v]

\* lines 433-460 of the call for config_files[idx]: read and check the
\* configuration, derive the object type, resolve the endpoint
ReadConfig ==
    /\ pc = "loop"
    /\ idx <= Len(config_files)
    /\ UNCHANGED <<conf_dir, object_types, env, config_files, output>>
    /\ LET path == config_files[idx]
           name == NameOf(path)
           started == Append(log, Event("start", name))
           fields == ConfiguredFields(path.config)
           kept == RemoveId(FieldNames(fields))
       IN  IF \/ ~isdict(path.config)
              \/ ~Truthy(fields)
              \/ kept = <<>>
              \/ ~MatchesPrefixAndType(path.stem)
           THEN \* AttributeError or ValueError: nothing in backup_all catches it
                /\ pc' = "raised"
                /\ log' = Append(started, Event("error", name))
                /\ UNCHANGED <<idx, cur>>
           ELSE IF get_netbox_endpoint(pynetbox_api, TypeOf(path.stem)) = UnknownObjectType
           THEN \* lines 458-460
                /\ pc' = "loop"
                /\ idx' = idx + 1
                /\ log' = Append(started, Event("skip_unknown_type", name))
                /\ UNCHANGED cur
           ELSE /\ pc' = "fetch"
                /\ cur' = [path |-> name, fields |-> kept,
                           object_type |-> TypeOf(path.stem),
                           endpoint |-> get_netbox_endpoint(pynetbox_api, TypeOf(path.stem)),
                           objects |-> <<>>]
                /\ log' = started
                /\ UNCHANGED idx

\* lines 463-467: the bulk fetch, once; it answers or fails
FetchAll ==
    /\ pc = "fetch"
    /\ UNCHANGED <<conf_dir, object_types, env, config_files, output>>
    /\ \/ \E objects \in FetchResults :
            /\ cur' = [cur EXCEPT !.objects = objects]
            /\ pc' = "open"
            /\ log' = Append(log, Event("fetch", cur.path))
            /\ UNCHANGED idx
       \/ /\ pc' = "loop"
          /\ idx' = idx + 1
          /\ cur' = NoCall
          /\ log' = Append(Append(log, Event("fetch", cur.path)),
                           Event("skip_fetch_error", cur.path))

\* the stem of the file name being processed
OutputName(name) == config_files[idx].stem \o ".csv"

\* lines 470-484: create or truncate the output file, write the header
OpenOutput ==
    /\ pc = "open"
    /\ output' = [output EXCEPT ![OutputName(cur.path)] =
                    [exists |-> TRUE, header |-> cur.fields, rows |-> <<>>]]
    /\ pc' = "rows"
    /\ UNCHANGED <<conf_dir, object_types, env, config_files, idx, cur, log>>

\* lines 487-518: the row of one object
RowOf(obj, fields) ==
    [i \in 1..Len(fields) |->
        IF fields[i] = "id" THEN "" ELSE CellOf(RowValue(obj, fields[i]))]

\* lines 486-520: one turn of the loop over the fetched objects
WriteRow ==
    /\ pc = "rows"
    /\ cur.objects # <<>>
    /\ output' = [output EXCEPT ![OutputName(cur.path)].rows =
                    Append(@, RowOf(Head(cur.objects), cur.fields))]
    /\ cur' = [cur EXCEPT !.objects = Tail(@)]
    /\ UNCHANGED <<pc, conf_dir, object_types, env, config_files, idx, log>>

\* line 522: the file is closed, the call returns
Finish ==
    /\ pc = "rows"
    /\ cur.objects = <<>>
    /\ pc' = "loop"
    /\ idx' = idx + 1
    /\ cur' = NoCall
    /\ log' = Append(log, Event("written", cur.path))
    /\ UNCHANGED <<conf_dir, object_types, env, config_files, output>>

\* the call extract_field_value(obj, field) is made (lines 493-505)
CallsExtract(obj, field) ==
    /\ field # "id"
    /\ field = "action_object" =>
         LET ao == getattr(obj, "action_object", None)
         IN  Truthy(ao) /\ ~hasattr(ao, "name") /\ ~(isdict(ao) /\ InDict(ao, "name"))

\* the row of one object when the call for fields[k] swallowed an interrupt
RowOfInterrupted(obj, fields, k, block) ==
    [i \in 1..Len(fields) |->
        IF i = k THEN CellOf(extract_field_valueInterrupted(obj, fields[i], block))
        ELSE RowOf(obj, fields)[i]]

\* lines 486-520 with a KeyboardInterrupt delivered inside one of the two
\* try blocks of extract_field_value: the bare except swallows it, the row
\* is written and the loop goes on
WriteRowInterrupted ==
    /\ pc = "rows"
    /\ cur.objects # <<>>
    /\ \E k \in 1..Len(cur.fields), block \in SwallowingBlocks :
        /\ CallsExtract(Head(cur.objects), cur.fields[k])
        /\ block = "record" => ReachesRecordRule(Head(cur.objects), cur.fields[k])
        /\ output' = [output EXCEPT ![OutputName(cur.path)].rows =
                        Append(@, RowOfInterrupted(Head(cur.objects), cur.fields, k, block))]
    /\ cur' = [cur EXCEPT !.objects = Tail(@)]
    /\ interrupted' = TRUE
    /\ UNCHANGED <<pc, conf_dir, object_types, env, config_files, idx, log>>

\* a KeyboardInterrupt delivered anywhere else: the except Exception of line
\* 465 does not catch it, the with block of line 475 closes the output file
\* with what was written, the exception leaves backup_all and __main__
\* prints and exits (lines 677-680)
Interrupt ==
    /\ pc \in {"start", "loop", "fetch", "open", "rows"}
    /\ pc' = "interrupted"
    /\ interrupted' = TRUE
    /\ UNCHANGED <<conf_dir, object_types, env, config_files, idx, cur, output, log>>

\* line 603: the loop is exhausted, backup_all returns
Return ==
    /\ pc = "loop"
    /\ idx > Len(config_files)
    /\ pc' = "returned"
    /\ UNCHANGED <<conf_dir, object_types, env, config_files, idx, cur, output, log>>

-----------------------------------------------------------------------------
(* Specifications                                                          *)

\* the variables of the part that is not running
RunIdle ==
    /\ pc = "idle" /\ conf_dir = <<>> /\ object_types = None
    /\ env = [url |-> TRUE, key |-> TRUE, conf |-> TRUE, stale |-> FALSE]
    /\ config_files = <<>> /\ idx = 1 /\ cur = NoCall
    /\ output = InitialOutput(env) /\ log = <<>> /\ interrupted = FALSE
CellIdle ==
    /\ x_pc = "idle" /\ x_obj = None /\ x_field = "" /\ x_value = None /\ x_cell = ""
ResolveIdle ==
    /\ r_pc = "idle" /\ r_nb = pynetbox_api /\ r_type = ""
    /\ r_endpoint = UnknownObjectType /\ r_fetches = 0

Init == RunInit /\ CellIdle /\ ResolveIdle
Next ==
    \/ Start /\ UNCHANGED <<interrupted, cellVars, resolveVars>>
    \/ ReadConfig /\ UNCHANGED <<interrupted, cellVars, resolveVars>>
    \/ FetchAll /\ UNCHANGED <<interrupted, cellVars, resolveVars>>
    \/ OpenOutput /\ UNCHANGED <<interrupted, cellVars, resolveVars>>
    \/ WriteRow /\ UNCHANGED <<interrupted, cellVars, resolveVars>>
    \/ WriteRowInterrupted /\ UNCHANGED <<cellVars, resolveVars>>
    \/ Finish /\ UNCHANGED <<interrupted, cellVars, resolveVars>>
    \/ Return /\ UNCHANGED <<interrupted, cellVars, resolveVars>>
    \/ Interrupt /\ UNCHANGED <<cellVars, resolveVars>>
Spec == Init /\ [][Next]_vars

InitCell == XInit /\ RunIdle /\ ResolveIdle
NextCell ==
    \/ XExtract /\ UNCHANGED <<runVars, resolveVars>>
    \/ XRowCell /\ UNCHANGED <<runVars, resolveVars>>
SpecCell == InitCell /\ [][NextCell]_vars

InitResolve == ResolveInit /\ RunIdle /\ CellIdle
NextResolve ==
    \/ ResolveEndpoint /\ UNCHANGED <<runVars, cellVars>>
    \/ ResolveFetch /\ UNCHANGED <<runVars, cellVars>>
SpecResolve == InitResolve /\ [][NextResolve]_vars

-----------------------------------------------------------------------------
(* Properties of a run                                                     *)

Terminal == pc \in {"returned", "raised"}
Started(path) == \E p \in 1..Len(log) : log[p] = Event("start", NameOf(path))
SkippedAfterFailure(path) ==
    \E p \in 1..Len(log) :
        log[p] \in {Event("skip_unknown_type", NameOf(path)),
                    Event("skip_fetch_error", NameOf(path))}
FetchAttempts(path) ==
    Cardinality({p \in 1..Len(log) : log[p] = Event("fetch", NameOf(path))})
OutputOf(path) == output[path.stem \o ".csv"]
WrittenThisRun(path) == OutputOf(path).exists /\ OutputOf(path) # StaleFile
PathNamed(name) == CHOOSE f \in {conf_dir[i] : i \in 1..Len(conf_dir)} : NameOf(f) = name

\* the configured field names, [] when the file has no "fields" key
ListedFields(path) ==
    IF HasKey(path.config, "fields") THEN FieldNames(Lookup(path.config, "fields")) ELSE <<>>
\* a configuration error: no or empty fields, nothing but id, or a file name
\* that is not <digits>-<type>
HasConfigError(path) ==
    \/ \A k \in 1..Len(ListedFields(path)) : ListedFields(path)[k] = "id"
    \/ ~MatchesPrefixAndType(path.stem)

\* C1: a configuration error in one file is recovered per file: once the run
\* has ended, it has not aborted and every file behind the faulty one in
\* processing order has been processed.
C1_ConfigErrorSkipsOnlyThatFile ==
    Terminal =>
        \A i \in 1..Len(config_files) :
            (HasConfigError(config_files[i]) /\ Started(config_files[i])) =>
                /\ pc # "raised"
                /\ \A j \in (i + 1)..Len(config_files) : Started(config_files[j])

\* C2: a file whose endpoint resolution or bulk fetch failed has seen at most
\* one fetch attempt, its output file is as it was before the run, and once
\* the run has ended every file behind it has been processed.
C2_FailedTypeSkippedRunGoesOn ==
    \A i \in 1..Len(config_files) :
        SkippedAfterFailure(config_files[i]) =>
            /\ FetchAttempts(config_files[i]) <= 1
            /\ OutputOf(config_files[i]) = InitialOutput(env)[config_files[i].stem \o ".csv"]
            /\ Terminal => \A j \in (i + 1)..Len(config_files) : Started(config_files[j])

\* the first two parts of C2, and the step after the failure: the loop goes
\* on to the next file
FailedTypeOneFetchNoOutput ==
    \A i \in 1..Len(config_files) :
        SkippedAfterFailure(config_files[i]) =>
            /\ FetchAttempts(config_files[i]) <= 1
            /\ OutputOf(config_files[i]) = InitialOutput(env)[config_files[i].stem \o ".csv"]
            /\ pc # "raised" => idx > i

\* C3: files are processed one at a time in ascending order of the numeric
\* prefix: of two processed files with prefixes a < b, the one with prefix a
\* was started first and had been written or skipped when the other started.
C3_AscendingPrefixOneAtATime ==
    \A p, q \in 1..Len(log) :
        (/\ log[p].ev = "start" /\ log[q].ev = "start"
         /\ ~get_sort_key(PathNamed(log[p].name)).inf
         /\ ~get_sort_key(PathNamed(log[q].name)).inf
         /\ get_sort_key(PathNamed(log[p].name)).n < get_sort_key(PathNamed(log[q].name)).n)
        => /\ p < q
           /\ \E r \in (p + 1)..(q - 1) :
                /\ log[r].name = log[p].name
                /\ log[r].ev \in {"written", "skip_unknown_type", "skip_fetch_error"}

\* two files were processed that the directory listed in descending order
C3_Witness ==
    /\ Len(conf_dir) >= 2
    /\ KeyLess(get_sort_key(conf_dir[2]), get_sort_key(conf_dir[1]))
    /\ Started(conf_dir[1]) /\ Started(conf_dir[2])
    /\ \E p \in 1..Len(log) : log[p] = Event("written", NameOf(conf_dir[2]))

\* C4: the header row of every output file written is the configured fields
\* list with every id removed, in configured order; id is in no header.
C4_HeaderIsFieldsWithoutId ==
    \A i \in 1..Len(conf_dir) :
        WrittenThisRun(conf_dir[i]) =>
            LET NotId(f) == f # "id"
                header == OutputOf(conf_dir[i]).header
            IN  /\ header = SelectSeq(ListedFields(conf_dir[i]), NotId)
                /\ \A k \in 1..Len(header) : header[k] # "id"

\* an output file was written for a configuration that lists id
C4_Witness ==
    \E i \in 1..Len(conf_dir) :
        /\ WrittenThisRun(conf_dir[i])
        /\ \E k \in 1..Len(ListedFields(conf_dir[i])) : ListedFields(conf_dir[i])[k] = "id"
        /\ Len(OutputOf(conf_dir[i]).rows) > 0

\* the type a name stands for: the name without its numeric prefix
NamedType(ot) == IF MatchesPrefixAndType(ot) THEN TypeOf(ot) ELSE ot
\* the file is <digits>-<type> for one of the types named
MatchesNamedType(path) ==
    /\ MatchesPrefixAndType(path.stem)
    /\ \E k \in 1..Len(object_types.v) : TypeOf(path.stem) = NamedType(object_types.v[k])
SettingsPresent == env.url /\ env.key /\ env.conf

\* C12: with the connection settings and conf/ present, object types named
\* and no discovered file matching any of them, the run (when no interrupt
\* cut it short) has printed one
\* diagnostic and nothing else has happened: no file was started, no fetch
\* issued, the output directory is as it was, and backup_all has returned
\* without raising.
C12_NoMatchOneDiagnosticNoOutput ==
    (/\ pc \notin {"start", "idle"}
     /\ ~interrupted
     /\ SettingsPresent
     /\ Truthy(object_types)
     /\ \A i \in 1..Len(conf_dir) : ~MatchesNamedType(conf_dir[i]))
    => /\ pc = "returned"
       /\ Len(log) = 1
       /\ log[1].ev \in {"print_no_match", "print_no_files"}
       /\ output = InitialOutput(env)
       /\ \A i \in 1..Len(conf_dir) : FetchAttempts(conf_dir[i]) = 0

\* vlans was named, conf/ holds valid files of other types and a file of an
\* earlier run is in output/
C12_Witness ==
    /\ pc = "returned"
    /\ object_types = PList(<<"vlans">>)
    /\ Len(conf_dir) >= 2
    /\ \E i \in 1..Len(conf_dir) : conf_dir[i].stem = "1-sites"
    /\ env.stale
    /\ log = <<Event("print_no_match", "")>>
    /\ output = InitialOutput(env)

\* C16: an interrupt delivered at any point of a run aborts the run. The
\* step that delivers it ends the run and leaves output/ as it stands: the
\* file in progress holds its header and the rows written so far, the files
\* completed before are unchanged. Once an interrupt has been delivered
\* nothing further happens: no later configuration file is processed.
C16_InterruptAbortsRun ==
    [][/\ ~interrupted
       /\ interrupted' =>
            /\ pc' = "interrupted"
            /\ output' = output
            /\ pc = "rows" =>
                 /\ output'[OutputName(cur.path)].exists
                 /\ output'[OutputName(cur.path)].header = cur.fields]_vars

\* the same for the interrupts that reach __main__: the run ends there and
\* output/ stays as it stands
PropagatedInterruptKeepsOutput ==
    [][/\ pc # "interrupted"
       /\ pc' = "interrupted" =>
            /\ output' = output
            /\ pc = "rows" =>
                 /\ output'[OutputName(cur.path)].exists
                 /\ output'[OutputName(cur.path)].header = cur.fields]_vars

-----------------------------------------------------------------------------
(* Properties of extract_field_value and of a row cell                      *)

CharAt(s, i) == SubSeq(s, i, i)
Contains(s, c) == \E i \in 1..Len(s) : CharAt(s, i) = c

\* C5: a cell placed in a CSV row holds no \n, no \r and no two consecutive
\* spaces.
C5_CellSingleLineSingleSpaced ==
    x_pc = "cell" =>
        /\ ~Contains(x_cell, "\n")
        /\ ~Contains(x_cell, "\r")
        /\ \A i \in 1..(Len(x_cell) - 1) : ~(CharAt(x_cell, i) = " " /\ CharAt(x_cell, i + 1) = " ")

\* a value with a line break in it was placed in a row
C5_Witness ==
    /\ x_pc = "cell"
    /\ x_value.t = "str"
    /\ Contains(x_value.v, "\n")
    /\ x_cell = "a a"

\* the field is resolved by one of the first three rules (assigned object,
\* wireless link, cable termination) and not read off the object
DerivedField(obj, field) ==
    \/ Truthy(AssignedObject(obj)) /\ field \in assigned_object_fields
    \/ (hasattr(obj, "interface_a") \/ hasattr(obj, "interface_b")) /\ field \in wireless_fields
    \/ (hasattr(obj, "a_terminations") \/ hasattr(obj, "b_terminations"))
       /\ field \in cable_fields

\* the attribute value the chain goes on with after the base lookup
RawValue == getattr(x_obj, x_field, None)
BaseLookupReached == x_pc = "extracted" /\ ~DerivedField(x_obj, x_field)

\* C6 as stated: a field that is not present on the object gives the empty
\* string.
C6_AbsentFieldGivesEmpty ==
    (x_pc = "extracted" /\ ~hasattr(x_obj, x_field)) => x_value = PStr("")

\* C6: a field that is not present on the object and that none of the first
\* three rules derives (device, virtual_machine, interface of an assigned
\* object; the sided fields of a wireless link or of a cable) gives the
\* empty string.
C6_AbsentUnderivedFieldGivesEmpty ==
    (BaseLookupReached /\ ~hasattr(x_obj, x_field)) => x_value = PStr("")

\* an object with an assigned object was asked for a field it does not have
C6_Witness ==
    /\ BaseLookupReached
    /\ ~hasattr(x_obj, x_field)
    /\ Truthy(AssignedObject(x_obj))
    /\ x_value = PStr("")

IsReference(x) ==
    /\ IsMapping(x)
    /\ HasKey(x, "name") \/ HasKey(x, "slug") \/ HasKey(x, "id")
    /\ ~HasKey(x, "value") /\ ~HasKey(x, "label")

\* C7: a reference object (plain mapping or object handle) under a field
\* that is no named relationship field gives its name if it has one, else
\* its slug, else its id as a string (the result is compared as text).
C7_ReferenceGivesNameSlugId ==
    (/\ BaseLookupReached
     /\ x_field \notin relationship_name_fields
     /\ IsReference(RawValue))
    => Str(x_value) = Str(IF HasKey(RawValue, "name") THEN Lookup(RawValue, "name")
                          ELSE IF HasKey(RawValue, "slug") THEN Lookup(RawValue, "slug")
                          ELSE Lookup(RawValue, "id"))

\* the same for the object handles that are no pynetbox Record
ObjectHandleGivesNameSlugId ==
    (/\ BaseLookupReached
     /\ x_field \notin relationship_name_fields
     /\ IsReference(RawValue)
     /\ RawValue.t = "obj")
    => Str(x_value) = Str(IF HasKey(RawValue, "name") THEN Lookup(RawValue, "name")
                          ELSE IF HasKey(RawValue, "slug") THEN Lookup(RawValue, "slug")
                          ELSE Lookup(RawValue, "id"))

IsChoice(x) ==
    /\ x.t \in {"dict", "record"}
    /\ Len(x.v) = 2
    /\ HasKey(x, "value") /\ HasKey(x, "label")

\* C8 as stated: status and action_type give the machine value; every other
\* field gives the label, the value when the label is empty, the first
\* value of the record when both are empty.
C8_ChoiceGivesValueOrLabel ==
    (BaseLookupReached /\ IsChoice(RawValue)) =>
        LET value == Lookup(RawValue, "value")
            label == Lookup(RawValue, "label")
        IN  IF x_field \in {"status", "action_type"}
            THEN x_value = PStr(Str(value))
            ELSE x_value = PStr(Str(IF Truthy(label) THEN label
                                    ELSE IF Truthy(value) THEN value
                                    ELSE FirstValue(RawValue)))

\* C8: status and action_type give the machine value when it is not empty,
\* else the label when that is not empty, else the first value of the
\* record; every other field gives the label, the value when the label is
\* empty, the first value of the record when both are empty.
C8_ChoicePrefersValueOrLabel ==
    (BaseLookupReached /\ IsChoice(RawValue)) =>
        LET value == Lookup(RawValue, "value")
            label == Lookup(RawValue, "label")
        IN  IF x_field \in {"status", "action_type"}
            THEN x_value = PStr(Str(IF Truthy(value) THEN value
                                    ELSE IF Truthy(label) THEN label
                                    ELSE FirstValue(RawValue)))
            ELSE x_value = PStr(Str(IF Truthy(label) THEN label
                                    ELSE IF Truthy(value) THEN value
                                    ELSE FirstValue(RawValue)))

\* status of {value: "active", label: "Active"} gave "active"
C8_Witness ==
    /\ BaseLookupReached
    /\ x_field = "status"
    /\ IsChoice(RawValue)
    /\ Lookup(RawValue, "label") = PStr("Active")
    /\ x_value = PStr("active")

\* C9: a named relationship field with a non-null reference gives the name
\* whenever the reference carries one, and the identifier when it carries an
\* identifier and no name.
C9_RelationshipGivesNameElseId ==
    (/\ x_pc = "extracted"
     /\ x_field \in relationship_name_fields
     /\ RawValue # None
     /\ IsMapping(RawValue))
    => /\ HasKey(RawValue, "name") => Str(x_value) = Str(Lookup(RawValue, "name"))
       /\ (HasKey(RawValue, "id") /\ ~HasKey(RawValue, "name"))
            => Str(x_value) = Str(Lookup(RawValue, "id"))

\* a reference that lists its id before its name gave the name
C9_Witness ==
    /\ x_pc = "extracted"
    /\ x_field = "role"
    /\ IsMapping(RawValue)
    /\ Len(RawValue.v) >= 2
    /\ RawValue.v[1].k = "id" /\ HasKey(RawValue, "name")
    /\ x_value = PStr("n")

\* what a list element contributes: its slug, else its name, else its text
Contribution(item) ==
    IF HasKey(item, "slug") THEN Str(Lookup(item, "slug"))
    ELSE IF HasKey(item, "name") THEN Str(Lookup(item, "name"))
    ELSE Str(item)

\* C10: a list gives the contributions of its elements joined by commas in
\* list order; an empty list gives the empty string.
C10_ListGivesCommaJoined ==
    (BaseLookupReached /\ islist(RawValue)) =>
        x_value = PStr(Join(",", [i \in 1..Len(RawValue.v) |-> Contribution(RawValue.v[i])]))

\* the same for lists that hold no plain mapping
ListOfHandlesGivesCommaJoined ==
    (BaseLookupReached /\ islist(RawValue)
     /\ \A i \in 1..Len(RawValue.v) : ~isdict(RawValue.v[i])) =>
        x_value = PStr(Join(",", [i \in 1..Len(RawValue.v) |-> Contribution(RawValue.v[i])]))

\* the terminations list a sided cable field reads, and what it reads there
SideList(field) ==
    IF SubSeq(field, 1, 7) = "side_a_" THEN "a_terminations" ELSE "b_terminations"
Facet(field) == SubSeq(field, 8, Len(field))

\* the object with each terminations list cut down to its first element
FirstOnly(obj) ==
    [obj EXCEPT !.v = [i \in 1..Len(obj.v) |->
        IF obj.v[i].k \in {"a_terminations", "b_terminations"}
           /\ islist(obj.v[i].v) /\ Len(obj.v[i].v.v) > 1
        THEN Item(obj.v[i].k, PList(<<obj.v[i].v.v[1]>>))
        ELSE obj.v[i]]]

\* the attribute is there and not null
Has(x, key) == hasattr(x, key) /\ Lookup(x, key) # None

\* C13: on an object that exposes a_terminations or b_terminations, a
\* side_a_*/side_b_* field is resolved from the first element of its list
\* only: the elements behind it do not change the result; a missing, null
\* or empty list gives the empty string; so does a first element without
\* the attribute asked for (device, type, name; device.site for the site);
\* a first element t with t.device.name = "rtr1" gives "rtr1" for the
\* device, and likewise the text of t.type, t.name and t.device.site.name.
C13_CableFieldFromFirstTermination ==
    (/\ x_pc = "extracted"
     /\ hasattr(x_obj, "a_terminations") \/ hasattr(x_obj, "b_terminations")
     /\ x_field \in cable_fields)
    => LET terminations == getattr(x_obj, SideList(x_field), None)
           first == terminations.v[1]
           facet == Facet(x_field)
       IN  IF terminations = None \/ terminations = PList(<<>>)
           THEN x_value = PStr("")
           ELSE /\ x_value = extract_field_value(FirstOnly(x_obj), x_field)
                /\ facet = "device" =>
                      /\ ~Has(first, "device") => x_value = PStr("")
                      /\ (Has(first, "device") /\ hasattr(Lookup(first, "device"), "name"))
                            => x_value = Lookup(Lookup(first, "device"), "name")
                /\ facet \in {"type", "name"} =>
                      /\ ~Has(first, facet) => x_value = PStr("")
                      /\ Has(first, facet) => x_value = PStr(Str(Lookup(first, facet)))
                /\ facet = "site" =>
                      /\ (~Has(first, "device") \/ ~Has(Lookup(first, "device"), "site"))
                            => x_value = PStr("")
                      /\ (/\ Has(first, "device")
                          /\ Has(Lookup(first, "device"), "site")
                          /\ hasattr(Lookup(Lookup(first, "device"), "site"), "name"))
                            => x_value = Lookup(Lookup(Lookup(first, "device"), "site"), "name")

\* side_a_device of a cable whose a side ends on rtr1 first and on rtr2 next
C13_Witness ==
    /\ x_pc = "extracted"
    /\ x_field = "side_a_device"
    /\ hasattr(x_obj, "a_terminations")
    /\ islist(Lookup(x_obj, "a_terminations"))
    /\ Len(Lookup(x_obj, "a_terminations").v) = 2
    /\ \A i \in 1..2 : Has(Lookup(x_obj, "a_terminations").v[i], "device")
    /\ getattr(Lookup(Lookup(x_obj, "a_terminations").v[1], "device"), "name", None) = PStr("rtr1")
    /\ getattr(Lookup(Lookup(x_obj, "a_terminations").v[2], "device"), "name", None) = PStr("rtr2")
    /\ x_value = PStr("rtr1")

\* key of a plain mapping, attribute of a handle
Member(x, key) == IF isdict(x) THEN InDict(x, key) ELSE hasattr(x, key)

\* C14: on an object whose assigned object is present (not null, not
\* empty), device, virtual_machine and interface are resolved from the
\* assigned object only: the name of its device, the name of its virtual
\* machine, its own name. When the assigned object does not hold what is
\* asked for, the result is the empty string. The attribute of that name on
\* the object itself is never returned.
C14_AssignedObjectOnly ==
    (/\ x_pc = "extracted"
     /\ Truthy(AssignedObject(x_obj))
     /\ x_field \in assigned_object_fields)
    => LET assigned_obj == AssignedObject(x_obj)
           nested == Lookup(assigned_obj, x_field)
       IN  /\ x_field = "interface" =>
                IF Member(assigned_obj, "name")
                THEN x_value = PStr(Str(Lookup(assigned_obj, "name")))
                ELSE x_value = PStr("")
           /\ x_field # "interface" =>
                /\ (~Member(assigned_obj, x_field) \/ nested = None) => x_value = PStr("")
                /\ (Member(assigned_obj, x_field) /\ Member(nested, "name"))
                      => x_value = Lookup(nested, "name")
           /\ hasattr(x_obj, x_field) =>
                /\ x_value # Lookup(x_obj, x_field)
                /\ Str(x_value) # Str(Lookup(x_obj, x_field))

\* device was asked of an address whose assigned object has no device while
\* the address has a device attribute of its own
C14_Witness ==
    /\ x_pc = "extracted"
    /\ x_field = "device"
    /\ Truthy(AssignedObject(x_obj))
    /\ ~Member(AssignedObject(x_obj), "device")
    /\ hasattr(x_obj, "device")
    /\ Lookup(x_obj, "device") = Device("own")
    /\ x_value = PStr("")

-----------------------------------------------------------------------------
(* Properties of get_netbox_endpoint                                        *)

\* the call has returned or raised, and nothing has happened since
CallEnded == r_pc \in {"resolved", "unknown"}

\* C11: a type name that is an identifier of the table with its hyphens
\* replaced by underscores resolves to the endpoint of that identifier.
C11_UnderscoreNameResolves ==
    CallEnded =>
        \A e \in endpoint_map :
            r_type = ReplaceHyphens(e[1]) => r_endpoint = [app |-> e[2], res |-> e[3]]

\* what the second step does: an identifier of the table that holds a hyphen
\* is unknown once its hyphens are underscores
UnderscoreNameIsUnknown ==
    CallEnded =>
        \A e \in endpoint_map :
            (r_type = ReplaceHyphens(e[1]) /\ r_type # e[1]) => r_pc = "unknown"

HyphenPositions(s) == {i \in 1..Len(s) : CharAt(s, i) = "-"}

\* the client has an attribute called group, and that attribute has one
\* called resource
Exposes(nb, group, resource) ==
    /\ group \in nb.attrs
    /\ group \in nb.any \/ <<group, resource>> \in nb.has

C15_WitnessTwoHyphens ==
    /\ r_pc = "unknown"
    /\ r_type = "dcim-frobs-"
    /\ r_nb = ClosedClient

====
